---- MODULE Spec2Model ----
(***************************************************************************)
(* A state-machine model of flocrawl: the search resolver (search.py), the *)
(* scraper (scraper.py: scrape_url, list_links, scrape_links) and the      *)
(* batch tool of the server (server.py: scrape_urls_tool).                 *)
(*                                                                         *)
(* One run of the model is one call of one public operation.  `op` names   *)
(* the operation, `pc` the place the call has reached, `ret` what it       *)
(* returned.  Everything the outside world decides (what a backend yields, *)
(* whether a request fails, what a page holds) is chosen with \E at the    *)
(* step that asks for it.                                                  *)
(***************************************************************************)
EXTENDS Integers, Sequences, FiniteSets, TLC

VARIABLES
    op,            \* the public operation this run calls
    pc,            \* where the call is
    ret,           \* the value returned (NoReturn until the call returns)
    events,        \* what the call did to the outside world, in order
    opened,        \* the HTTP clients and browsers opened and not closed yet
    \* ---- search.py
    max_results,   \* search_web's max_results argument
    results,       \* _search_duckduckgo's accumulating `results` list
    attempt,       \* _search_duckduckgo's loop variable
    pass_hits,     \* what the pass over the DDGS backend run last appended to `results`
    yields,        \* what each strategy handed to search_web, in call order
    result_els,    \* the result elements of the search page fetched last
    \* ---- the arguments and settings of a scraper call (never changed)
    url,               \* the url argument
    same_domain_only,  \* list_links / scrape_links argument
    max_pages,         \* scrape_links argument (None when not given)
    urls_arg,          \* scrape_urls_tool's urls argument
    use_fallback,      \* config.get_use_browser_fallback()
    pw_installed,      \* scraper._playwright_installed()
    max_links,         \* config.get_max_links_per_page()
    max_size,          \* config.get_max_scrape_size()
    batch_limit,       \* the concurrency limit of the batch fetch
    \* ---- scraper.py: the locals of the running scrape_url / list_links
    surl,          \* scrape_url's url argument
    content,       \* resp.content: bytes received, and bytes handed to decode
    html,          \* the decoded HTTP response
    soup,          \* list_links' soup: the document parsed and its a[href] elements
    parsed,        \* (title, text) of _parse_html_to_text(html)
    browser,       \* what _fetch_html_with_browser came to
    sres,          \* the record scrape_url returned last
    lres,          \* the record list_links returned
    \* ---- scraper.py: scrape_links, and the batch fetch
    selected,      \* link_result["links"][:limit]
    idx,           \* position of the for loop in `selected`
    pages,
    errors,
    scrapes,       \* the records scrape_url returned for the links, in order of return
    inflight       \* positions of `selected` whose fetch has started and not ended

searchVars == <<max_results, results, attempt, pass_hits, yields, result_els>>
argVars == <<url, same_domain_only, max_pages, urls_arg, use_fallback, pw_installed,
             max_links, max_size, batch_limit>>
callVars == <<surl, content, html, soup, parsed, browser, sres, lres>>
crawlVars == <<selected, idx, pages, errors, scrapes, inflight>>
scraperVars == <<argVars, callVars, crawlVars>>
vars == <<op, pc, ret, events, opened, searchVars, scraperVars>>

(***************************************************************************)
(* Bounds of the model.                                                    *)
(***************************************************************************)
MaxResultsArg == 2     \* max_results ranges over 0..MaxResultsArg
MaxRecs == 2           \* records one pass over the DDGS backend yields
MaxCands == 2          \* result elements on a scraped search page

None == "None"
NoReturn == "NoReturn"

\* All sequences over S of length 0..n.
SeqsUpTo(S, n) == UNION {[1..k -> S] : k \in 0..n}

\* seq[:n] for n >= 0.
Take(seq, n) == SubSeq(seq, 1, IF n < Len(seq) THEN n ELSE Len(seq))

\* dict.get(key, default) on a field that holds None when the key is absent.
Get(value, default) == IF value = None THEN default ELSE value

(***************************************************************************)
(* search.py: _search_duckduckgo (the DDGS library strategy)               *)
(***************************************************************************)

\* Raw records of the DDGS library: current key names, the older key names,
\* and a record with none of the keys.
RawRecords ==
    { [title |-> "t1", href |-> "http://x1", url |-> None, body |-> "s1", snippet |-> None],
      [title |-> "t2", href |-> None, url |-> "http://x2", body |-> None, snippet |-> "s2"],
      [title |-> None, href |-> None, url |-> None, body |-> None, snippet |-> None] }

\* The dict appended at search.py 119-123 (and 131-135).
NormalizeHit(r) ==
    [ title   |-> Get(r.title, ""),
      url     |-> Get(r.href, Get(r.url, "")),
      snippet |-> Get(r.body, Get(r.snippet, "")) ]

\* The for loop of search.py 118-125: append each record, break once the list
\* has max_results entries.  broke: the loop left by `break`, so the backend
\* was not asked for a further record.
RECURSIVE AppendHits(_, _, _)
AppendHits(res, recs, max) ==
    IF recs = <<>> THEN [results |-> res, broke |-> FALSE]
    ELSE LET r2 == Append(res, NormalizeHit(Head(recs)))
         IN  IF Len(r2) >= max THEN [results |-> r2, broke |-> TRUE]
             ELSE AppendHits(r2, Tail(recs), max)

\* How a pass over the backend ends when the loop did not break first.
PassEnds == {"ok", "TypeError", "error"}

\* range(2) at search.py 106.
DdgsAttempts == 2

(***************************************************************************)
(* search.py: the HTML-scrape strategies                                   *)
(*                                                                         *)
(* A URL string is modelled by its form and the destination it carries:    *)
(*   direct        the string is the destination itself                    *)
(*   ddg_protorel  //duckduckgo.com/l/?uddg=<destination>                  *)
(*   ddg_path      /l/?uddg=<destination>                                  *)
(*   ddg_abs       https://duckduckgo.com/l/?uddg=<destination>            *)
(*   google_url    /url?q=<destination>&sa=U                               *)
(*   relative      a site-relative path such as /about                     *)
(***************************************************************************)
Destinations == {"http://x1", "https://x2", "ftp://x3", ""}

SUrl(form, target) == [form |-> form, target |-> target]

\* A variant of the test below that takes any string with a scheme.
StartsWithAnyScheme(u) ==
    \/ u.form = "direct" /\ u.target # ""
    \/ u.form = "ddg_abs"

\* s.startswith("http://") or s.startswith("https://")
StartsWithHttpScheme(u) ==
    \/ u.form = "direct" /\ u.target \in {"http://x1", "https://x2"}
    \/ u.form = "ddg_abs"

\* "uddg=" in href
HasUddg(u) == u.form \in {"ddg_protorel", "ddg_path", "ddg_abs"}

\* _extract_ddg_url, search.py 149-160.  parse_qs drops a blank uddg value,
\* so an empty destination leaves the href as it is.
ExtractDdgUrl(href) ==
    IF href = SUrl("direct", "") THEN SUrl("direct", "")
    ELSE IF StartsWithHttpScheme(href) THEN href
    ELSE IF HasUddg(href)
         THEN IF href.target # "" THEN SUrl("direct", href.target) ELSE href
    ELSE href

DdgHrefs ==
    {SUrl("direct", d) : d \in Destinations}
      \cup {SUrl("ddg_protorel", d) : d \in {"http://x1", "ftp://x3", ""}}
      \cup {SUrl("ddg_path", "http://x1"), SUrl("ddg_abs", "http://x1"),
            SUrl("relative", "")}

\* A div.result element: whether it holds a link, and the link's href, text
\* and the snippet text.
DdgCands ==
    {[link |-> TRUE, href |-> h, title |-> "t", snippet |-> "s"] : h \in DdgHrefs}
      \cup {[link |-> FALSE, href |-> SUrl("direct", ""), title |-> "", snippet |-> ""],
            [link |-> TRUE, href |-> SUrl("direct", "https://x2"), title |-> "", snippet |-> ""]}

\* The 5 of `[:max_results + 5]`, search.py 184.
DdgHtmlSlack == 5

\* The loop body of search.py 185-196 over the elements left.
RECURSIVE DdgHtmlLoop(_, _, _)
DdgHtmlLoop(res, cands, max) ==
    IF cands = <<>> THEN res
    ELSE LET c == Head(cands)
             real_url == ExtractDdgUrl(c.href)
         IN  IF ~c.link THEN DdgHtmlLoop(res, Tail(cands), max)
             ELSE IF real_url # SUrl("direct", "") /\ StartsWithHttpScheme(real_url)
                  THEN LET r2 == Append(res, [title |-> c.title, url |-> real_url,
                                             snippet |-> c.snippet])
                       IN  IF Len(r2) >= max THEN r2
                           ELSE DdgHtmlLoop(r2, Tail(cands), max)
                  ELSE DdgHtmlLoop(res, Tail(cands), max)

\* _search_duckduckgo_html once the page is fetched, search.py 184-198.
DdgHtmlResults(cands, max) == DdgHtmlLoop(<<>>, Take(cands, max + DdgHtmlSlack), max)

GoogleHrefs ==
    {SUrl("direct", d) : d \in Destinations}
      \cup {SUrl("google_url", d) : d \in {"http://x1", "ftp://x3", ""}}
      \cup {SUrl("relative", "")}

\* A div.g element: whether it holds an h3 and an a[href], and their contents.
GoogleCands ==
    {[title_el |-> TRUE, link_el |-> TRUE, href |-> h, title |-> "t", snippet |-> "s"]
        : h \in GoogleHrefs}
      \cup {[title_el |-> FALSE, link_el |-> TRUE, href |-> SUrl("direct", "http://x1"),
             title |-> "", snippet |-> ""],
            [title_el |-> TRUE, link_el |-> FALSE, href |-> SUrl("direct", ""),
             title |-> "t", snippet |-> ""]}

\* search.py 237-240: href.startswith("/url?") and the q parameter taken;
\* parse_qs drops a blank q, so the href stays.
UnwrapGoogle(href) ==
    IF href.form = "google_url" /\ href.target # ""
    THEN SUrl("direct", href.target) ELSE href

\* _search_google_html once the page is fetched, search.py 227-249.
RECURSIVE GoogleHtmlResults(_, _, _)
GoogleHtmlResults(res, cands, max) ==
    IF cands = <<>> THEN res
    ELSE LET c == Head(cands)
             href == UnwrapGoogle(c.href)
         IN  IF ~c.title_el \/ ~c.link_el THEN GoogleHtmlResults(res, Tail(cands), max)
             ELSE IF ~StartsWithHttpScheme(href)
                  THEN GoogleHtmlResults(res, Tail(cands), max)
             ELSE LET r2 == Append(res, [title |-> c.title, url |-> href,
                                        snippet |-> c.snippet])
                  IN  IF Len(r2) >= max THEN r2
                      ELSE GoogleHtmlResults(r2, Tail(cands), max)

(***************************************************************************)
(* search.py: search_web                                                   *)
(***************************************************************************)
Strategies == <<"ddgs", "ddg_html", "google_html">>

\* The place search_web goes on to after strategy `name` gave it nothing:
\* the next try block, or the `return []` of line 88.
AfterStrategy(name) ==
    CASE name = "ddgs" -> "sw_ddg_html"
      [] name = "ddg_html" -> "sw_google_html"
      [] OTHER -> "sw_exhausted"

\* A variant of the test below that wants more than one hit.
StrategyHitWhenSeveral(res) == Len(res) > 1

\* `if results:` at search.py 61, 71 and 81.
StrategyHit(res) == res # <<>>

\* A variant of the except clauses below that lets the failure out of search_web.
StrategyFailurePropagates(name) == "raised"

\* The except clauses of search.py 64, 74 and 84: the failure is logged and
\* search_web goes on to what follows the try block.
AfterStrategyFailure(name) == AfterStrategy(name)

\* A strategy returned `res` to search_web.
StrategyReturns(name, res) ==
    /\ yields' = Append(yields, [raised |-> FALSE, hits |-> res])
    /\ IF StrategyHit(res)
       THEN pc' = "done" /\ ret' = res
       ELSE pc' = AfterStrategy(name) /\ ret' = ret

\* A `with` block (or a try with a finally that closes) is entered: resource
\* r is open from here on, and the call is inside the block at `inside`.
Opens(r, inside) ==
    /\ opened' = opened \cup {r}
    /\ pc' = inside

\* A variant of the set below that closes only when nothing was raised.
ReleasedOnSuccess(held, r, raised) == IF raised THEN held ELSE held \ {r}

\* What is still open when the block that opened r is left, by its end or by
\* an exception: __exit__ and finally run either way.
Released(held, r, raised) == held \ {r}

\* A strategy raised into search_web's try block.
StrategyRaises(name) ==
    /\ yields' = Append(yields, [raised |-> TRUE, hits |-> <<>>])
    /\ pc' = AfterStrategyFailure(name)
    /\ ret' = ret

\* A variant of the clause below that goes on to the next attempt whatever
\* the first one found.
DdgsAttemptEndsRetrying(res) ==
    /\ results' = res
    /\ attempt' = attempt + 1
    /\ events' = Append(events, "ddgs_query")
    /\ IF attempt + 1 < DdgsAttempts
       THEN pc' = "ddgs_primary" /\ ret' = ret /\ yields' = yields
       ELSE StrategyReturns("ddgs", res)

\* _search_duckduckgo after the inner try of one attempt ended without an
\* exception, search.py 139-140, then the loop or line 146.
DdgsAttemptEnds(res) ==
    /\ results' = res
    /\ IF res # <<>>
       THEN attempt' = attempt /\ events' = Append(events, "ddgs_query")
            /\ StrategyReturns("ddgs", res)
       ELSE /\ attempt' = attempt + 1
            /\ events' = Append(events, "ddgs_query")
            /\ IF attempt + 1 < DdgsAttempts
               THEN pc' = "ddgs_primary" /\ ret' = ret /\ yields' = yields
               ELSE StrategyReturns("ddgs", res)

\* A variant of the clause below that pauses after every failed attempt.
DdgsAttemptFailsAlwaysPausing(res) ==
    /\ results' = res
    /\ attempt' = attempt + 1
    /\ events' = events \o <<"ddgs_query", "sleep">>
    /\ IF attempt + 1 < DdgsAttempts
       THEN pc' = "ddgs_primary" /\ ret' = ret /\ yields' = yields
       ELSE StrategyReturns("ddgs", res)

\* The except clause of search.py 141-144, then the loop or line 146.
DdgsAttemptFails(res) ==
    /\ results' = res
    /\ attempt' = attempt + 1
    /\ events' = IF attempt < 1 THEN events \o <<"ddgs_query", "sleep">>
                 ELSE Append(events, "ddgs_query")
    /\ IF attempt + 1 < DdgsAttempts
       THEN pc' = "ddgs_primary" /\ ret' = ret /\ yields' = yields
       ELSE StrategyReturns("ddgs", res)

\* search.py 58-60 and 97-105: search_web calls _search_duckduckgo, whose
\* import of the library may fail.
SearchWeb_Ddgs ==
    /\ op = "search_web" /\ pc = "sw_ddgs"
    /\ \E installed \in BOOLEAN :
         IF installed
         THEN /\ pc' = "ddgs_primary"
              /\ results' = <<>> /\ attempt' = 0
              /\ events' = Append(events, "ddgs")
              /\ UNCHANGED <<ret, yields>>
         ELSE /\ StrategyRaises("ddgs")
              /\ events' = Append(events, "ddgs")
              /\ UNCHANGED <<results, attempt>>
    /\ UNCHANGED <<op, opened, max_results, pass_hits, result_els, scraperVars>>

\* search.py 116: `with DDGS(headers=..., timeout=15) as ddgs`.
Ddgs_PrimaryOpen ==
    /\ op = "search_web" /\ pc = "ddgs_primary"
    /\ Opens("ddgs", "ddgs_primary_pass")
    /\ UNCHANGED <<op, ret, events, searchVars, scraperVars>>

\* search.py 115-125: one pass with the html backend.
Ddgs_PrimaryPass ==
    /\ op = "search_web" /\ pc = "ddgs_primary_pass"
    /\ \E recs \in SeqsUpTo(RawRecords, MaxRecs), end \in PassEnds :
         LET a == AppendHits(results, recs, max_results)
         IN  /\ opened' = Released(opened, "ddgs", ~(a.broke \/ end = "ok"))
             /\ pass_hits' = SubSeq(a.results, Len(results) + 1, Len(a.results))
             /\ IF a.broke \/ end = "ok" THEN DdgsAttemptEnds(a.results)
                ELSE IF end = "TypeError"
                     THEN /\ pc' = "ddgs_fallback" /\ results' = a.results
                          /\ events' = Append(events, "ddgs_query")
                          /\ UNCHANGED <<attempt, ret, yields>>
                ELSE DdgsAttemptFails(a.results)
    /\ UNCHANGED <<op, max_results, result_els, scraperVars>>

\* search.py 129: `with DDGS(timeout=15) as ddgs`.
Ddgs_FallbackOpen ==
    /\ op = "search_web" /\ pc = "ddgs_fallback"
    /\ Opens("ddgs", "ddgs_fallback_pass")
    /\ UNCHANGED <<op, ret, events, searchVars, scraperVars>>

\* search.py 126-137: the pass for an older library, after a TypeError.
Ddgs_FallbackPass ==
    /\ op = "search_web" /\ pc = "ddgs_fallback_pass"
    /\ \E recs \in SeqsUpTo(RawRecords, MaxRecs), end \in {"ok", "error"} :
         LET a == AppendHits(results, recs, max_results)
         IN  /\ opened' = Released(opened, "ddgs", ~(a.broke \/ end = "ok"))
             /\ pass_hits' = SubSeq(a.results, Len(results) + 1, Len(a.results))
             /\ IF a.broke \/ end = "ok" THEN DdgsAttemptEnds(a.results)
                ELSE DdgsAttemptFails(a.results)
    /\ UNCHANGED <<op, max_results, result_els, scraperVars>>

\* search.py 67-68 and 163-171: search_web calls _search_duckduckgo_html,
\* which opens its client (`with httpx.Client(...) as client`).
SearchWeb_DdgHtml ==
    /\ op = "search_web" /\ pc = "sw_ddg_html"
    /\ events' = Append(events, "ddg_html")
    /\ Opens("client", "ddg_html_get")
    /\ UNCHANGED <<op, ret, searchVars, scraperVars>>

\* search.py 69-75 and 171-198: the exchange, the parsing and the return.
DdgHtml_Get ==
    /\ op = "search_web" /\ pc = "ddg_html_get"
    /\ events' = events
    /\ \/ /\ StrategyRaises("ddg_html") /\ result_els' = result_els
          /\ opened' = Released(opened, "client", TRUE)
       \/ \E cands \in SeqsUpTo(DdgCands, MaxCands) :
            /\ result_els' = cands
            /\ opened' = Released(opened, "client", FALSE)
            /\ StrategyReturns("ddg_html", DdgHtmlResults(cands, max_results))
    /\ UNCHANGED <<op, max_results, results, attempt, pass_hits, scraperVars>>

\* search.py 77-78 and 201-217: search_web calls _search_google_html, which
\* opens its client (`with httpx.Client(...) as client`).
SearchWeb_GoogleHtml ==
    /\ op = "search_web" /\ pc = "sw_google_html"
    /\ events' = Append(events, "google_html")
    /\ Opens("client", "google_html_get")
    /\ UNCHANGED <<op, ret, searchVars, scraperVars>>

\* search.py 79-85 and 217-249: the exchange, the parsing and the return.
GoogleHtml_Get ==
    /\ op = "search_web" /\ pc = "google_html_get"
    /\ events' = events
    /\ \/ /\ StrategyRaises("google_html") /\ result_els' = result_els
          /\ opened' = Released(opened, "client", TRUE)
       \/ \E cands \in SeqsUpTo(GoogleCands, MaxCands) :
            /\ result_els' = cands
            /\ opened' = Released(opened, "client", FALSE)
            /\ StrategyReturns("google_html", GoogleHtmlResults(<<>>, cands, max_results))
    /\ UNCHANGED <<op, max_results, results, attempt, pass_hits, scraperVars>>

\* search.py 87-88: every strategy came back empty or failed.
SearchWeb_Exhausted ==
    /\ op = "search_web" /\ pc = "sw_exhausted"
    /\ pc' = "done" /\ ret' = <<>>
    /\ UNCHANGED <<op, events, opened, searchVars, scraperVars>>

NextSearch ==
    \/ SearchWeb_Ddgs
    \/ Ddgs_PrimaryOpen
    \/ Ddgs_PrimaryPass
    \/ Ddgs_FallbackOpen
    \/ Ddgs_FallbackPass
    \/ SearchWeb_DdgHtml
    \/ DdgHtml_Get
    \/ SearchWeb_GoogleHtml
    \/ GoogleHtml_Get
    \/ SearchWeb_Exhausted

(***************************************************************************)
(* scraper.py: the data                                                    *)
(***************************************************************************)
MaxLinksCfg == 3       \* get_max_links_per_page() ranges over 0..MaxLinksCfg
MaxPagesArg == 3       \* max_pages ranges over None and -1..MaxPagesArg
CfgMaxPages == 2       \* get_max_pages_to_scrape()
MaxSizeCfg == 2        \* get_max_scrape_size() ranges over 1..MaxSizeCfg
MaxBodyLen == 3        \* the length of a response body ranges over 1..MaxBodyLen
MaxAnchors == 3        \* a[href] elements of a page the extraction is run on
MaxBatch == 2          \* URLs in a scrape_urls_tool call

\* An absolute URL: scheme://host/path.
Url(scheme, host, path) == [scheme |-> scheme, host |-> host, path |-> path]

\* NoUrl stands where no URL has been given yet.
NoUrl == Url("", "", "")

\* _JS_HEAVY_DOMAINS, scraper.py 55.
JsHeavyDomains == {"docs.google.com", "drive.google.com", "notion.so", "notion.site"}

\* The URLs a caller passes: an ordinary page, a page whose query string
\* names a JS-heavy domain, a Google document and another page of its host.
PageUrls ==
    { Url("https", "a.com", "/p0"),
      Url("https", "a.com", "/?u=notion.so"),
      Url("https", "docs.google.com", "/document/d/D1"),
      Url("https", "docs.google.com", "/p0") }

\* re.search(r'docs\.google\.com/document/d/([a-zA-Z0-9_-]+)', url), scraper.py 76.
IsGoogleDoc(u) == u.host = "docs.google.com" /\ u.path = "/document/d/D1"

\* any(d in url for d in _JS_HEAVY_DOMAINS), scraper.py 64: a substring test
\* on the whole URL string.
MentionsJsHeavyDomain(u) == u.host \in JsHeavyDomains \/ u.path = "/?u=notion.so"

\* A decoded HTML document, by what the scraper reads of it:
\*   title, text   what _parse_html_to_text extracts (text as its lines)
\*   text_len      len(text.strip())
\*   soup_len      len of the whole document's text (list_links' placeholder_text)
\*   phrase        html.lower() holds one of _JS_REQUIRED_PHRASES
\*   empty         the document is the empty string
Doc(title, text, text_len, soup_len, phrase) ==
    [title |-> title, text |-> text, text_len |-> text_len, soup_len |-> soup_len,
     phrase |-> phrase, empty |-> FALSE]

EmptyHtml ==
    [title |-> "", text |-> <<>>, text_len |-> 0, soup_len |-> 0, phrase |-> FALSE,
     empty |-> TRUE]

NoDoc == EmptyHtml

PlainDoc == Doc("Plain", <<"hello", " world ", " ">>, 400, 450, FALSE)
JsShellDoc == Doc("Shell", <<"Please enable JavaScript to continue">>, 36, 36, TRUE)
StubDoc == Doc("", <<" stub ">>, 4, 600, FALSE)
RenderedDoc == Doc("Rendered", <<"rendered", " content ">>, 900, 900, FALSE)

HttpDocs == {PlainDoc, JsShellDoc, StubDoc}
BrowserDocs == {RenderedDoc, EmptyHtml}

\* line.strip()
StripLine(line) ==
    CASE line = " world " -> "world"
      [] line = " stub " -> "stub"
      [] line = " content " -> "content"
      [] line = " body " -> "body"
      [] line = " " -> ""
      [] OTHER -> line

\* [line.strip() for line in text.splitlines() if line.strip()], scraper.py 190, 243.
RECURSIVE NormalizeLines(_)
NormalizeLines(lines) ==
    IF lines = <<>> THEN <<>>
    ELSE IF StripLine(Head(lines)) = "" THEN NormalizeLines(Tail(lines))
    ELSE <<StripLine(Head(lines))>> \o NormalizeLines(Tail(lines))

\* The thresholds of scraper.py 64, 101, 193 and 302.
JsTextThreshold == 400
ExportShortThreshold == 50
TitleLineLimit == 100
PlaceholderCut == 500

Min(a, b) == IF a < b THEN a ELSE b
Max(a, b) == IF a > b THEN a ELSE b

\* _is_js_required_page, scraper.py 58-66.
IsJsRequiredPage(doc, u, text_len) ==
    \/ doc.phrase
    \/ text_len < JsTextThreshold /\ MentionsJsHeavyDomain(u)

\* _parse_html_to_text, scraper.py 249-260.
ParseHtmlToText(doc) == [ok |-> TRUE, title |-> doc.title, text |-> doc.text]

NoParse == [ok |-> FALSE, title |-> "", text |-> <<>>]

\* What the export endpoint answers, by what _try_google_docs_export reads:
\*   lines            the text, as its lines
\*   strip_len        len(text.strip())
\*   error_words      the text holds "404", "not found" or "access"
\*   first_line_len   len of the first non-blank line, stripped
ExportTexts ==
    { [lines |-> <<"My Doc", " body ">>, strip_len |-> 60, error_words |-> FALSE,
       first_line_len |-> 6],
      [lines |-> <<"hi">>, strip_len |-> 2, error_words |-> FALSE, first_line_len |-> 2],
      [lines |-> <<"access denied">>, strip_len |-> 13, error_words |-> TRUE,
       first_line_len |-> 13],
      [lines |-> <<"no access to this long document">>, strip_len |-> 60,
       error_words |-> TRUE, first_line_len |-> 31],
      [lines |-> <<"a first line of a hundred characters", " body ">>, strip_len |-> 120,
       error_words |-> FALSE, first_line_len |-> 100],
      [lines |-> <<" ">>, strip_len |-> 0, error_words |-> FALSE, first_line_len |-> 0] }

\* Whether _try_google_docs_export returns the text (scraper.py 100-106) and
\* scrape_url takes it (`if export_text:`, 188); otherwise None comes back.
ExportAccepted(t) ==
    /\ ~(t.strip_len < ExportShortThreshold /\ t.error_words)
    /\ t.strip_len > 0

\* The failures of an HTTP exchange: a non-2xx status (raise_for_status), and
\* the transport's own exceptions with the message str(e) gives.
HttpFailures ==
    { [kind |-> "status", code |-> 404, msg |-> ""],
      [kind |-> "status", code |-> 500, msg |-> ""],
      [kind |-> "timeout", code |-> 0, msg |-> "timed out"],
      [kind |-> "network", code |-> 0, msg |-> "connection refused"] }

\* f"HTTP {e.response.status_code}" and str(e), scraper.py 225, 232.
ErrorText(exc) ==
    IF exc.kind = "status"
    THEN (IF exc.code = 404 THEN "HTTP 404" ELSE "HTTP 500")
    ELSE exc.msg

\* A variant of the except clauses below without the `except Exception`.
CaughtStatusOnly(exc) == exc.kind = "status"

\* The except clauses around the HTTP exchange (scraper.py 220-233, 293-296):
\* HTTPStatusError, then Exception, which every failure of the transport is.
CaughtByFetch(exc) == exc.kind = "status" \/ exc.kind \in {"timeout", "network"}

\* The records scrape_url returns.
ScrapeOk(u, title, text) == [url |-> u, title |-> title, text |-> text, error |-> None]
ScrapeErr(u, msg) == [url |-> u, title |-> "", text |-> <<>>, error |-> msg]
NoScrape == ScrapeErr(NoUrl, None)

\* A variant of the record below that drops the export text.
ExportResultDropped(u, t) == ScrapeErr(u, "export failed")

\* scraper.py 190-196: the record built from the export text.
ExportResult(u, t) ==
    LET lines == NormalizeLines(t.lines)
    IN  ScrapeOk(u,
                 IF lines # <<>> /\ t.first_line_len < TitleLineLimit
                 THEN lines[1] ELSE "Google Document",
                 lines)

\* scraper.py 243-244: the record built from the (title, text) in hand.
ScrapeResult(u, p) == ScrapeOk(u, p.title, NormalizeLines(p.text))

\* A variant of the record below that keeps what the document held.
ParseFailureKeepsText(u, doc) ==
    [url |-> u, title |-> doc.title, text |-> doc.text, error |-> "parse error"]

\* scraper.py 245-246: the parser (or anything after the fetch) raised.
ScrapeParseFailure(u, doc) == ScrapeErr(u, "parse error")

\* A variant of the test below that leaves the detector out.
TryBrowserWhenEnabled(doc, u, text_len) == use_fallback

\* scraper.py 238 and 301-303: whether the browser is asked for.
ShouldTryBrowser(doc, u, text_len) == use_fallback /\ IsJsRequiredPage(doc, u, text_len)

\* scraper.py 118-122: whether _fetch_html_with_browser goes on to launch.
BrowserAvailable == pw_installed /\ use_fallback

\* A variant of the record below that reports the browser's failure.
ErrorOnBrowserFailure(u, p) == ScrapeErr(u, "browser failed")

\* scraper.py 171-173 and 240: the browser session raised, None came back and
\* scrape_url goes on with what the HTTP fetch produced.
ScrapeOnBrowserFailure(u, p) == ScrapeResult(u, p)

NotTried == [state |-> "not_tried", doc |-> NoDoc]

(***************************************************************************)
(* scraper.py: link extraction                                             *)
(***************************************************************************)
\* An a[href] element: the stripped href by its form, and the anchor text.
\*   empty, fragment, mailto     skipped at scraper.py 317
\*   relative                    a path, resolved against the page's URL
\*   absolute                    scheme://host/path
\*   invalid                     an href urljoin rejects with ValueError
Anchor(form, scheme, host, path, text) ==
    [form |-> form, scheme |-> scheme, host |-> host, path |-> path, text |-> text]

AFragment == Anchor("fragment", "", "", "", "top")
ARelP1 == Anchor("relative", "", "", "/p1", "one")
AAbsP2 == Anchor("absolute", "https", "a.com", "/p2", "")
AAbsP3 == Anchor("absolute", "https", "a.com", "/p3", "three")
ASubP1 == Anchor("absolute", "https", "sub.a.com", "/p1", "sub")
AInvalid == Anchor("invalid", "", "", "", "bad")
AEmpty == Anchor("empty", "", "", "", "none")
AMailto == Anchor("mailto", "mailto", "", "x@a.com", "mail")
AAbsP1 == Anchor("absolute", "https", "a.com", "/p1", "again")
ASuffixP1 == Anchor("absolute", "https", "nota.com", "/p1", "suffix")
AFtpP1 == Anchor("absolute", "ftp", "a.com", "/p1", "ftp")

\* Every kind of a[href] element the extraction tells apart.
AnchorKinds ==
    {AEmpty, AFragment, AMailto, ARelP1, AAbsP1, AAbsP2, ASubP1, ASuffixP1, AFtpP1,
     AInvalid}

\* The a[href] elements, in document order, of the pages the operations are
\* run on: a page without links, one with three distinct links of its own
\* host, one with a skipped href, a repeated link and a link to another host,
\* one with four links over two hosts, and one with an href urljoin rejects.
PageAnchors ==
    { <<>>,
      <<ARelP1, AAbsP2, AAbsP3>>,
      <<AFragment, ARelP1, ASubP1, ARelP1>>,
      <<ARelP1, ASubP1, AAbsP2, AAbsP3>>,
      <<ARelP1, AInvalid>> }

\* urljoin(url, href), scraper.py 319.
UrlJoin(base, a) ==
    IF a.form = "relative" THEN Url(base.scheme, base.host, a.path)
    ELSE Url(a.scheme, a.host, a.path)

\* a.get_text(strip=True) or abs_url, scraper.py 328.
LinkText(a, abs_url) == IF a.text = "" THEN [url |-> abs_url] ELSE [str |-> a.text]

\* scraper.py 314, with a variant that tests the cap after the append.
CapReachedAfterAppend(links, maxl) == Len(links) > maxl
CapReached(links, maxl) == Len(links) >= maxl

\* scraper.py 317: not href, href.startswith("#"), href.startswith("mailto:").
Skipped(a) == a.form \in {"empty", "fragment", "mailto"}

\* scraper.py 321.
SchemeAccepted(abs_url) == abs_url.scheme \in {"http", "https"}

\* Whether host h ends with host b.
HostEndsWith(h, b) ==
    h = b \/ <<h, b>> \in {<<"sub.a.com", "a.com">>, <<"nota.com", "a.com">>}

\* scraper.py 323: same_domain_only and parsed.netloc != base_domain, with a
\* variant that accepts every host ending with the page's.
OtherDomainBySuffix(abs_url, base, sdo) == sdo /\ ~HostEndsWith(abs_url.host, base.host)
OtherDomain(abs_url, base, sdo) == sdo /\ abs_url.host # base.host

\* scraper.py 325: abs_url in seen, with a variant that never remembers.
NeverSeen(links, abs_url) == FALSE
Seen(links, abs_url) == \E i \in 1..Len(links) : links[i].href = abs_url

\* The for loop of scraper.py 313-329.  ok is FALSE when urljoin raised.
RECURSIVE ExtractLoop(_, _, _, _, _)
ExtractLoop(links, as, base, sdo, maxl) ==
    IF as = <<>> \/ CapReached(links, maxl) THEN [ok |-> TRUE, links |-> links]
    ELSE LET a == Head(as)
             abs_url == UrlJoin(base, a)
         IN  IF Skipped(a)
             THEN ExtractLoop(links, Tail(as), base, sdo, maxl)
             ELSE IF a.form = "invalid" THEN [ok |-> FALSE, links |-> <<>>]
             ELSE IF ~SchemeAccepted(abs_url)
             THEN ExtractLoop(links, Tail(as), base, sdo, maxl)
             ELSE IF OtherDomain(abs_url, base, sdo)
             THEN ExtractLoop(links, Tail(as), base, sdo, maxl)
             ELSE IF Seen(links, abs_url)
             THEN ExtractLoop(links, Tail(as), base, sdo, maxl)
             ELSE ExtractLoop(Append(links, [href |-> abs_url, text |-> LinkText(a, abs_url)]),
                              Tail(as), base, sdo, maxl)

\* scraper.py 309-333: the record list_links returns for the anchors in hand.
ListResult(u, as, sdo, maxl) ==
    LET e == ExtractLoop(<<>>, as, u, sdo, maxl)
    IN  IF e.ok THEN [url |-> u, links |-> e.links, error |-> None]
        ELSE [url |-> u, links |-> <<>>, error |-> "Invalid IPv6 URL"]

ListErr(u, msg) == [url |-> u, links |-> <<>>, error |-> msg]
NoList == ListErr(NoUrl, None)

\* The soup list_links holds: which document it was parsed from ("http" or
\* "browser") and that document's a[href] elements, in document order.
Soup(of, as) == [built |-> TRUE, of |-> of, anchors |-> as]
NoSoup == [built |-> FALSE, of |-> "", anchors |-> <<>>]

\* Python's truth test of an `error` value: None and "" are false.
Truthy(e) == e # None /\ e # ""

(***************************************************************************)
(* scraper.py: scrape_url                                                  *)
(***************************************************************************)
\* scrape_url returns record r: to the caller of the tool, or to the loop
\* of scrape_links that called it.
ScrapeReturns(r) ==
    /\ sres' = r
    /\ IF op = "scrape_url"
       THEN pc' = "done" /\ ret' = r
       ELSE pc' = "sl_collect" /\ ret' = ret

\* resp.content as `received` bytes, of which `kept` are handed to decode.
Content(received, kept) == [received |-> received, kept |-> kept]
NoContent == Content(0, 0)

\* The body lengths a response may have.
BodyLens == 1..MaxBodyLen

\* scraper.py 96-97 and 211-214: content[:max_size] when the body is longer.
CapContent(n, cap) == Content(n, IF n > cap THEN cap ELSE n)

\* scraper.py 284-286: list_links decodes resp.content as it came.
WholeContent(n) == Content(n, n)

\* scraper.py 187 with _try_google_docs_export, 69-88: the URL is tested and,
\* for a document, the export's client is opened.
ScrapeUrl_TryExport ==
    /\ pc = "su_export"
    /\ IF ~IsGoogleDoc(surl)
       THEN pc' = "su_get" /\ opened' = opened
       ELSE Opens("client", "su_export_get")
    /\ UNCHANGED <<op, ret, events, searchVars, scraperVars>>

\* scraper.py 89-110 and 188-196: the export's exchange and what scrape_url
\* does with the text.
ScrapeUrl_ExportGet ==
    /\ pc = "su_export_get"
    /\ events' = Append(events, "export_get")
    /\ \/ /\ pc' = "su_get" /\ UNCHANGED <<ret, sres, content>>
          /\ opened' = Released(opened, "client", TRUE)
       \/ \E t \in ExportTexts, n \in BodyLens :
            /\ content' = CapContent(n, max_size)
            /\ opened' = Released(opened, "client", FALSE)
            /\ IF ExportAccepted(t) THEN ScrapeReturns(ExportResult(surl, t))
               ELSE pc' = "su_get" /\ UNCHANGED <<ret, sres>>
    /\ UNCHANGED <<op, searchVars, argVars, crawlVars,
                   surl, html, soup, parsed, browser, lres>>

\* scraper.py 199-208: `with httpx.Client(...) as client`.
ScrapeUrl_Open ==
    /\ pc = "su_get"
    /\ Opens("client", "su_http")
    /\ UNCHANGED <<op, ret, events, searchVars, scraperVars>>

\* scraper.py 209-233: the HTTP GET, the size cap and the decoding.
ScrapeUrl_Get ==
    /\ pc = "su_http"
    /\ events' = Append(events, "http_get")
    /\ \/ \E exc \in HttpFailures :
            /\ IF CaughtByFetch(exc) THEN ScrapeReturns(ScrapeErr(surl, ErrorText(exc)))
               ELSE pc' = "raised" /\ UNCHANGED <<ret, sres>>
            /\ opened' = Released(opened, "client", TRUE)
            /\ UNCHANGED <<content, html>>
       \/ \E doc \in HttpDocs, n \in BodyLens :
            /\ content' = CapContent(n, max_size)
            /\ opened' = Released(opened, "client", FALSE)
            /\ html' = doc /\ pc' = "su_parse" /\ UNCHANGED <<ret, sres>>
    /\ UNCHANGED <<op, searchVars, argVars, crawlVars,
                   surl, soup, parsed, browser, lres>>

\* scraper.py 235-246 when the browser is not asked for: parse, detect, return.
ScrapeUrl_Parse ==
    /\ pc = "su_parse"
    /\ \/ ScrapeReturns(ScrapeParseFailure(surl, html)) /\ parsed' = parsed
       \/ /\ parsed' = ParseHtmlToText(html)
          /\ IF ShouldTryBrowser(html, surl, html.text_len)
             THEN pc' = "su_browser" /\ UNCHANGED <<ret, sres>>
             ELSE ScrapeReturns(ScrapeResult(surl, ParseHtmlToText(html)))
    /\ UNCHANGED <<op, events, searchVars, argVars, crawlVars,
                   surl, content, html, soup, browser, lres>>
    /\ opened' = opened

\* scraper.py 239-246 with _fetch_html_with_browser, 113-173.
ScrapeUrl_Browser ==
    /\ pc = "su_browser"
    /\ IF ~BrowserAvailable
       THEN /\ browser' = [state |-> "unavailable", doc |-> NoDoc]
            /\ events' = events /\ opened' = opened
            /\ ScrapeReturns(ScrapeResult(surl, parsed))
       ELSE /\ events' = Append(events, "browser_launch")
            /\ Opens("browser", "su_render")
            /\ UNCHANGED <<ret, browser, sres>>
    /\ UNCHANGED <<op, searchVars, argVars, crawlVars,
                   surl, content, html, soup, parsed, lres>>

\* scraper.py 141-173 and 240-246: the browser session, closed by the finally
\* clause whatever happens in it, and what scrape_url makes of its HTML.
ScrapeUrl_Render ==
    /\ pc = "su_render"
    /\ \/ /\ browser' = [state |-> "failed", doc |-> NoDoc]
          /\ opened' = Released(opened, "browser", TRUE)
          /\ ScrapeReturns(ScrapeOnBrowserFailure(surl, parsed))
       \/ \E bdoc \in BrowserDocs :
            /\ browser' = [state |-> "rendered", doc |-> bdoc]
            /\ opened' = Released(opened, "browser", FALSE)
            /\ IF bdoc.empty THEN ScrapeReturns(ScrapeResult(surl, parsed))
               ELSE \/ ScrapeReturns(ScrapeResult(surl, ParseHtmlToText(bdoc)))
                    \/ ScrapeReturns(ScrapeParseFailure(surl, bdoc))
    /\ UNCHANGED <<op, events, searchVars, argVars, crawlVars,
                   surl, content, html, soup, parsed, lres>>

(***************************************************************************)
(* scraper.py: list_links                                                  *)
(***************************************************************************)
\* list_links returns record r: to the caller of the tool, or to scrape_links.
ListReturns(r) ==
    /\ lres' = r
    /\ IF op = "list_links"
       THEN pc' = "done" /\ ret' = r
       ELSE pc' = "sl_listed" /\ ret' = ret

\* scraper.py 274-283: `with httpx.Client(...) as client`.
ListLinks_Open ==
    /\ pc = "ll_get"
    /\ Opens("client", "ll_http")
    /\ UNCHANGED <<op, ret, events, searchVars, scraperVars>>

\* scraper.py 284-296: the HTTP GET and the decoding.
ListLinks_Get ==
    /\ pc = "ll_http"
    /\ events' = Append(events, "http_get")
    /\ \/ \E exc \in HttpFailures :
            /\ IF CaughtByFetch(exc) THEN ListReturns(ListErr(url, ErrorText(exc)))
               ELSE pc' = "raised" /\ UNCHANGED <<ret, lres>>
            /\ opened' = Released(opened, "client", TRUE)
            /\ UNCHANGED <<content, html, soup>>
       \/ \E doc \in HttpDocs, n \in BodyLens :
            /\ content' = WholeContent(n)
            /\ opened' = Released(opened, "client", FALSE)
            /\ html' = doc /\ soup' = soup
            /\ pc' = "ll_parse" /\ UNCHANGED <<ret, lres>>
    /\ UNCHANGED <<op, searchVars, argVars, crawlVars, surl, parsed, browser, sres>>

\* scraper.py 298-333 when the browser is not asked for.  `as` are the
\* a[href] elements the parser finds in html.
ListLinks_Parse ==
    /\ pc = "ll_parse"
    /\ \/ ListReturns(ListErr(url, "parse error")) /\ soup' = soup
       \/ \E as \in PageAnchors :
            /\ soup' = Soup("http", as)
            /\ IF ShouldTryBrowser(html, url, Min(html.soup_len, PlaceholderCut))
               THEN pc' = "ll_browser" /\ UNCHANGED <<ret, lres>>
               ELSE ListReturns(ListResult(url, as, same_domain_only, max_links))
    /\ UNCHANGED <<op, events, searchVars, argVars, crawlVars,
                   surl, content, html, parsed, browser, sres>>
    /\ opened' = opened

\* scraper.py 304-333 with _fetch_html_with_browser, 113-173.
ListLinks_Browser ==
    /\ pc = "ll_browser"
    /\ IF ~BrowserAvailable
       THEN /\ browser' = [state |-> "unavailable", doc |-> NoDoc]
            /\ events' = events /\ opened' = opened
            /\ ListReturns(ListResult(url, soup.anchors, same_domain_only, max_links))
       ELSE /\ events' = Append(events, "browser_launch")
            /\ Opens("browser", "ll_render")
            /\ UNCHANGED <<ret, browser, lres>>
    /\ UNCHANGED <<op, searchVars, argVars, crawlVars, surl, content, html, soup, parsed,
                   sres>>

\* scraper.py 141-173 and 305-333: the browser session, closed by the finally
\* clause whatever happens in it, and the links of what it rendered.
ListLinks_Render ==
    /\ pc = "ll_render"
    /\ \/ /\ browser' = [state |-> "failed", doc |-> NoDoc]
          /\ opened' = Released(opened, "browser", TRUE)
          /\ ListReturns(ListResult(url, soup.anchors, same_domain_only, max_links))
          /\ soup' = soup
       \/ \E bdoc \in BrowserDocs :
            /\ browser' = [state |-> "rendered", doc |-> bdoc]
            /\ opened' = Released(opened, "browser", FALSE)
            /\ IF bdoc.empty
               THEN /\ ListReturns(ListResult(url, soup.anchors, same_domain_only,
                                              max_links))
                    /\ soup' = soup
               ELSE \/ \E as \in PageAnchors :
                         /\ soup' = Soup("browser", as)
                         /\ ListReturns(ListResult(url, as, same_domain_only, max_links))
                    \/ /\ ListReturns(ListErr(url, "parse error"))
                       /\ soup' = soup
    /\ UNCHANGED <<op, events, searchVars, argVars, crawlVars, surl, content, html,
                   parsed, sres>>

(***************************************************************************)
(* scraper.py: scrape_links                                                *)
(***************************************************************************)
\* The max_pages argument: not given (None), or an integer.
NotGiven == [given |-> FALSE, n |-> 0]
Given(n) == [given |-> TRUE, n |-> n]
MaxPagesArgs == {NotGiven} \cup {Given(n) : n \in -1..MaxPagesArg}

\* scraper.py 354.
Limit(mp) == IF mp.given THEN mp.n ELSE CfgMaxPages

\* seq[:n] as Python slices: a negative n counts from the end.
PySlice(seq, n) == IF n >= 0 THEN Take(seq, n) ELSE Take(seq, Max(Len(seq) + n, 0))

\* A variant of the test below that never sees the listing's error.
ListingNeverFailed(l) == FALSE

\* `if link_result.get("error"):`, scraper.py 356.
ListingFailed(l) == Truthy(l.error)

\* scraper.py 357-361.
ListingFailedReply(u, l) == [base_url |-> u, pages |-> <<>>, errors |-> <<l.error>>]

\* f"{href}: {scraped['error']}", scraper.py 371: the string names the URL
\* and carries the error.
ErrorEntry(href, msg) == [url |-> href, error |-> msg]

\* A variant of the step below that drops a failed scrape.
CollectDroppingErrors(pg, er, href, scraped) ==
    IF Truthy(scraped.error)
    THEN [pages |-> pg, errors |-> er]
    ELSE [pages |-> Append(pg, [url |-> scraped.url, title |-> scraped.title,
                                text |-> scraped.text]),
          errors |-> er]

\* A variant of the step below that puts the newest record first.
CollectNewestFirst(pg, er, href, scraped) ==
    IF Truthy(scraped.error)
    THEN [pages |-> pg, errors |-> <<ErrorEntry(href, scraped.error)>> \o er]
    ELSE [pages |-> <<[url |-> scraped.url, title |-> scraped.title,
                       text |-> scraped.text]>> \o pg,
          errors |-> er]

\* scraper.py 370-377: one scraped record goes to errors or to pages.
Collect(pg, er, href, scraped) ==
    IF Truthy(scraped.error)
    THEN [pages |-> pg, errors |-> Append(er, ErrorEntry(href, scraped.error))]
    ELSE [pages |-> Append(pg, [url |-> scraped.url, title |-> scraped.title,
                                text |-> scraped.text]),
          errors |-> er]

\* scraper.py 369: scrape_url(href) is a blocking call, so the fetch of a
\* link is in flight from the call to its return.
FetchStarted(fl, i) == fl \cup {i}

\* A variant of the return below after which the fetch still counts.
FetchNeverEnds(fl, i) == fl

FetchEnded(fl, i) == fl \ {i}

\* scraper.py 352-355: scrape_links calls list_links on the start URL.
ScrapeLinks_Call ==
    /\ op = "scrape_links" /\ pc = "sl_start"
    /\ pc' = "ll_get"
    /\ UNCHANGED <<op, ret, events, searchVars, scraperVars>>
    /\ opened' = opened

\* scraper.py 356-365: the listing error ends the call; otherwise the first
\* `limit` links are selected.
ScrapeLinks_Listed ==
    /\ op = "scrape_links" /\ pc = "sl_listed"
    /\ IF ListingFailed(lres)
       THEN /\ pc' = "done" /\ ret' = ListingFailedReply(url, lres)
            /\ UNCHANGED crawlVars
       ELSE /\ selected' = PySlice(lres.links, Limit(max_pages))
            /\ idx' = 1 /\ pages' = <<>> /\ errors' = <<>>
            /\ pc' = "sl_loop"
            /\ UNCHANGED <<ret, scrapes, inflight>>
    /\ content' = NoContent /\ html' = NoDoc /\ soup' = NoSoup /\ browser' = NotTried
    /\ UNCHANGED <<op, events, searchVars, argVars, surl, parsed, sres, lres>>
    /\ opened' = opened

\* scraper.py 367-369: the loop takes the next link and calls scrape_url.
ScrapeLinks_Fetch ==
    /\ op = "scrape_links" /\ pc = "sl_loop" /\ idx <= Len(selected)
    /\ surl' = selected[idx].href
    /\ inflight' = FetchStarted(inflight, idx)
    /\ pc' = "su_export"
    /\ UNCHANGED <<op, ret, events, searchVars, argVars, content, html, soup, parsed,
                   browser, sres, lres, selected, idx, pages, errors, scrapes>>
    /\ opened' = opened

\* scraper.py 369-377: scrape_url returned; its record is collected.
ScrapeLinks_Collect ==
    /\ op = "scrape_links" /\ pc = "sl_collect"
    /\ LET c == Collect(pages, errors, selected[idx].href, sres)
       IN  pages' = c.pages /\ errors' = c.errors
    /\ scrapes' = Append(scrapes, sres)
    /\ inflight' = FetchEnded(inflight, idx)
    /\ idx' = idx + 1
    /\ pc' = "sl_loop"
    /\ content' = NoContent /\ html' = NoDoc /\ parsed' = NoParse /\ browser' = NotTried
    /\ UNCHANGED <<op, ret, events, searchVars, argVars, surl, soup, sres, lres,
                   selected>>
    /\ opened' = opened

\* scraper.py 379-383.
ScrapeLinks_Return ==
    /\ op = "scrape_links" /\ pc = "sl_loop" /\ idx > Len(selected)
    /\ pc' = "done"
    /\ ret' = [base_url |-> url, pages |-> pages, errors |-> errors]
    /\ UNCHANGED <<op, events, searchVars, scraperVars>>
    /\ opened' = opened

(***************************************************************************)
(* server.py: scrape_urls_tool                                             *)
(***************************************************************************)
MaxConcurrency == 2    \* the batch's concurrency limit ranges over 1..MaxConcurrency

\* The items of a urls argument.
UrlItems == {"", " ", " http://u1 ", "http://u2"}

\* str(u).strip()
StripItem(u) ==
    CASE u = " " -> ""
      [] u = " http://u1 " -> "http://u1"
      [] OTHER -> u

\* The urls argument: a list, a string (blank, a JSON array, text that starts
\* with "[" and is no JSON, any other text) or a value of another type.
\* items: the list's items, the array's items, or the trimmed string.
UrlsArgs ==
    {[type |-> "list", form |-> "", items |-> l] : l \in SeqsUpTo(UrlItems, MaxBatch)}
      \cup {[type |-> "str", form |-> "json_list", items |-> l]
               : l \in SeqsUpTo(UrlItems, MaxBatch)}
      \cup {[type |-> "str", form |-> "blank", items |-> <<>>],
            [type |-> "str", form |-> "bad_json", items |-> <<"[http://u2">>],
            [type |-> "str", form |-> "plain", items |-> <<"http://u2">>],
            [type |-> "other", form |-> "", items |-> <<>>]}

\* [str(u).strip() for u in urls if u]
RECURSIVE StripTruthy(_)
StripTruthy(items) ==
    IF items = <<>> THEN <<>>
    ELSE IF Head(items) = "" THEN StripTruthy(Tail(items))
    ELSE <<StripItem(Head(items))>> \o StripTruthy(Tail(items))

\* _normalize_urls_input, server.py 189-204.
NormalizeUrlsInput(a) ==
    CASE a.type = "list" -> StripTruthy(a.items)
      [] a.type = "str" /\ a.form = "blank" -> <<>>
      [] a.type = "str" /\ a.form = "json_list" -> StripTruthy(a.items)
      [] a.type = "str" -> a.items
      [] OTHER -> <<>>

\* A variant of the reply below without the message.
SilentEmptyReply == [pages |-> <<>>, errors |-> <<>>]

\* server.py 223.
NoValidUrlsReply == [pages |-> <<>>, errors |-> <<"No valid URLs provided">>]

\* server.py 220-225: the argument is normalised; nothing to fetch is
\* answered at once, anything else goes to scrape_urls_async.
ScrapeUrlsTool_Call ==
    /\ op = "scrape_urls_tool" /\ pc = "bt_start"
    /\ LET url_list == NormalizeUrlsInput(urls_arg)
       IN  IF url_list = <<>>
           THEN /\ pc' = "done" /\ ret' = NoValidUrlsReply
                /\ UNCHANGED crawlVars
           ELSE /\ pc' = "bt_run" /\ ret' = ret
                /\ selected' = url_list
                /\ idx' = 1 /\ pages' = <<>> /\ errors' = <<>>
                /\ UNCHANGED <<scrapes, inflight>>
    /\ UNCHANGED <<op, events, searchVars, argVars, callVars>>
    /\ opened' = opened

\* scrape_urls_async: a fetch is admitted while fewer than batch_limit are
\* in flight.
ScrapeUrlsAsync_Start ==
    /\ op = "scrape_urls_tool" /\ pc = "bt_run"
    /\ idx <= Len(selected)
    /\ Cardinality(inflight) < batch_limit
    /\ inflight' = inflight \cup {idx}
    /\ idx' = idx + 1
    /\ events' = Append(events, "http_get")
    /\ UNCHANGED <<op, pc, ret, searchVars, argVars, callVars,
                   selected, pages, errors, scrapes>>
    /\ opened' = opened

\* scrape_urls_async: a fetch in flight completes, with a page or an error.
ScrapeUrlsAsync_Finish ==
    /\ op = "scrape_urls_tool" /\ pc = "bt_run"
    /\ \E i \in inflight :
         /\ inflight' = inflight \ {i}
         /\ \/ /\ pages' = Append(pages, [url |-> selected[i], title |-> "T",
                                          text |-> <<"x">>])
               /\ errors' = errors
            \/ /\ errors' = Append(errors, ErrorEntry(selected[i], "HTTP 404"))
               /\ pages' = pages
    /\ UNCHANGED <<op, pc, ret, events, searchVars, argVars, callVars,
                   selected, idx, scrapes>>
    /\ opened' = opened

\* scrape_urls_async: every fetch completed, the record is returned.
ScrapeUrlsAsync_Return ==
    /\ op = "scrape_urls_tool" /\ pc = "bt_run"
    /\ idx > Len(selected) /\ inflight = {}
    /\ pc' = "done"
    /\ ret' = [pages |-> pages, errors |-> errors]
    /\ UNCHANGED <<op, events, searchVars, scraperVars>>
    /\ opened' = opened

(***************************************************************************)
(* The specification                                                       *)
(***************************************************************************)
NextScrape ==
    \/ ScrapeUrl_TryExport
    \/ ScrapeUrl_ExportGet
    \/ ScrapeUrl_Open
    \/ ScrapeUrl_Get
    \/ ScrapeUrl_Parse
    \/ ScrapeUrl_Browser
    \/ ScrapeUrl_Render
    \/ ListLinks_Open
    \/ ListLinks_Get
    \/ ListLinks_Parse
    \/ ListLinks_Browser
    \/ ListLinks_Render

\* The steps of scrape_links and of the list_links and scrape_url calls it
\* makes.  The links of the pages crawled are no documents of the export
\* platform, so the export's exchange is no step of a crawl.
NextCrawl ==
    \/ ScrapeUrl_TryExport
    \/ ScrapeUrl_Open
    \/ ScrapeUrl_Get
    \/ ScrapeUrl_Parse
    \/ ScrapeUrl_Browser
    \/ ScrapeUrl_Render
    \/ ListLinks_Open
    \/ ListLinks_Get
    \/ ListLinks_Parse
    \/ ListLinks_Browser
    \/ ListLinks_Render
    \/ ScrapeLinks_Call
    \/ ScrapeLinks_Listed
    \/ ScrapeLinks_Fetch
    \/ ScrapeLinks_Collect
    \/ ScrapeLinks_Return

NextBatch ==
    \/ ScrapeUrlsTool_Call
    \/ ScrapeUrlsAsync_Start
    \/ ScrapeUrlsAsync_Finish
    \/ ScrapeUrlsAsync_Return

\* The locals of a call before it ran.
IdleSearch ==
    /\ results = <<>> /\ attempt = 0 /\ pass_hits = <<>>
    /\ yields = <<>> /\ result_els = <<>>
IdleCall ==
    /\ content = NoContent
    /\ html = NoDoc /\ soup = NoSoup /\ parsed = NoParse /\ browser = NotTried
    /\ sres = NoScrape /\ lres = NoList
IdleCrawl ==
    /\ selected = <<>> /\ idx = 1 /\ pages = <<>> /\ errors = <<>>
    /\ scrapes = <<>> /\ inflight = {}

\* Nothing has run yet.
Idle ==
    /\ ret = NoReturn /\ events = <<>> /\ opened = {}
    /\ IdleSearch /\ IdleCall /\ IdleCrawl

InitSearch ==
    /\ Idle
    /\ op = "search_web" /\ pc = "sw_ddgs"
    /\ max_results \in 0..MaxResultsArg
    /\ url = NoUrl /\ surl = NoUrl
    /\ same_domain_only = TRUE /\ max_pages = NotGiven /\ max_links = 0
    /\ max_size = 1
    /\ use_fallback = FALSE /\ pw_installed = FALSE
    /\ urls_arg = [type |-> "other", form |-> "", items |-> <<>>] /\ batch_limit = 1

InitScrapeUrl ==
    /\ Idle
    /\ op = "scrape_url" /\ pc = "su_export"
    /\ max_results = 0
    /\ url \in PageUrls /\ surl = url
    /\ same_domain_only = TRUE /\ max_pages = NotGiven /\ max_links = 0
    /\ max_size \in 1..MaxSizeCfg
    /\ use_fallback \in BOOLEAN /\ pw_installed \in BOOLEAN
    /\ urls_arg = [type |-> "other", form |-> "", items |-> <<>>] /\ batch_limit = 1

InitListLinks ==
    /\ Idle
    /\ op = "list_links" /\ pc = "ll_get"
    /\ max_results = 0
    /\ url \in {u \in PageUrls : ~IsGoogleDoc(u)} /\ surl = NoUrl
    /\ same_domain_only \in BOOLEAN /\ max_pages = NotGiven
    /\ max_links \in 0..MaxLinksCfg
    /\ max_size \in 1..MaxSizeCfg
    /\ use_fallback \in BOOLEAN /\ pw_installed \in BOOLEAN
    /\ urls_arg = [type |-> "other", form |-> "", items |-> <<>>] /\ batch_limit = 1

InitScrapeLinks ==
    /\ Idle
    /\ op = "scrape_links" /\ pc = "sl_start"
    /\ max_results = 0
    /\ url = Url("https", "a.com", "/p0") /\ surl = NoUrl
    /\ same_domain_only \in BOOLEAN /\ max_pages \in MaxPagesArgs
    /\ max_links = MaxLinksCfg
    /\ max_size = 1
    /\ use_fallback \in BOOLEAN /\ pw_installed \in BOOLEAN
    /\ urls_arg = [type |-> "other", form |-> "", items |-> <<>>] /\ batch_limit = 1

InitScrapeUrlsTool ==
    /\ Idle
    /\ op = "scrape_urls_tool" /\ pc = "bt_start"
    /\ max_results = 0
    /\ url = NoUrl /\ surl = NoUrl
    /\ same_domain_only = TRUE /\ max_pages = NotGiven /\ max_links = 0
    /\ max_size = 1
    /\ use_fallback = FALSE /\ pw_installed = FALSE
    /\ urls_arg \in UrlsArgs /\ batch_limit \in 1..MaxConcurrency

\* A call of scrape_url or of list_links.
InitScrape == InitScrapeUrl \/ InitListLinks

\* A call of any of the public operations.
Init ==
    \/ InitSearch
    \/ InitScrape
    \/ InitScrapeLinks
    \/ InitScrapeUrlsTool

Next == NextSearch \/ NextScrape \/ NextCrawl \/ NextBatch

Spec == Init /\ [][Next]_vars

\* A call of search_web.
SpecSearch == InitSearch /\ [][NextSearch]_vars

\* A call of scrape_url or of list_links.
SpecScrape == InitScrape /\ [][NextScrape]_vars

\* A call of scrape_links.
SpecCrawl == InitScrapeLinks /\ [][NextCrawl]_vars

\* A call of scrape_urls_tool.
SpecBatch == InitScrapeUrlsTool /\ [][NextBatch]_vars

(***************************************************************************)
(* scraper.py 309-333: the link extraction of list_links by itself, run on *)
(* every page of up to MaxAnchors a[href] elements.                        *)
(***************************************************************************)
\* The pages the extraction is run on: one page and a page of a sub-domain.
ExtractUrls == {Url("https", "a.com", "/p0"), Url("https", "sub.a.com", "/p0")}

\* list_links at scraper.py 309 with the soup of the HTTP response in hand.
InitExtractHttp ==
    /\ use_fallback = FALSE /\ pw_installed = FALSE
    /\ events = <<"http_get">>
    /\ html = PlainDoc /\ browser = NotTried
    /\ \E as \in SeqsUpTo(AnchorKinds, MaxAnchors) : soup = Soup("http", as)

\* list_links at scraper.py 309 with the soup of the browser-rendered HTML.
InitExtractBrowser ==
    /\ use_fallback = TRUE /\ pw_installed = TRUE
    /\ events = <<"http_get", "browser_launch">>
    /\ html = JsShellDoc /\ browser = [state |-> "rendered", doc |-> RenderedDoc]
    /\ \E as \in SeqsUpTo(AnchorKinds, MaxAnchors) : soup = Soup("browser", as)

InitExtract ==
    /\ op = "list_links" /\ pc = "ll_links" /\ ret = NoReturn /\ opened = {}
    /\ IdleSearch /\ IdleCrawl
    /\ max_results = 0
    /\ url \in ExtractUrls /\ surl = NoUrl
    /\ same_domain_only \in BOOLEAN /\ max_pages = NotGiven
    /\ max_links \in 0..MaxLinksCfg
    /\ max_size = 1 /\ content = WholeContent(1)
    /\ parsed = NoParse /\ sres = NoScrape /\ lres = NoList
    /\ urls_arg = [type |-> "other", form |-> "", items |-> <<>>] /\ batch_limit = 1
    /\ (InitExtractHttp \/ InitExtractBrowser)

\* scraper.py 309-333: the for loop over the soup's a[href] elements.
ListLinks_Links ==
    /\ pc = "ll_links"
    /\ ListReturns(ListResult(url, soup.anchors, same_domain_only, max_links))
    /\ UNCHANGED <<op, events, searchVars, argVars, crawlVars,
                   surl, content, html, soup, parsed, browser, sres>>
    /\ opened' = opened

NextExtract == ListLinks_Links

SpecExtract == InitExtract /\ [][NextExtract]_vars

(***************************************************************************)
(* Properties                                                              *)
(***************************************************************************)
IsStrategyEvent(e) == e \in {"ddgs", "ddg_html", "google_html"}
IsHttpGet(e) == e = "http_get"

\* The strategies search_web has invoked so far, in order of invocation.
InvokedStrategies == SelectSeq(events, IsStrategyEvent)

\* C1: search_web invokes its strategies in the order DDGS library,
\* DuckDuckGo HTML, Google HTML, each at most once; every strategy before the
\* one invoked last handed back nothing; and the call returns exactly the
\* list of the strategy invoked last, so that a non-empty list is returned at
\* once and no strategy after it is invoked.
C1_FirstHitReturned ==
    op = "search_web" =>
      /\ Len(InvokedStrategies) <= Len(Strategies)
      /\ \A i \in 1..Len(InvokedStrategies) : InvokedStrategies[i] = Strategies[i]
      /\ Len(yields) <= Len(InvokedStrategies)
      /\ \A i \in 1..(Len(yields) - 1) : yields[i].hits = <<>>
      /\ pc = "done" =>
           /\ Len(yields) = Len(InvokedStrategies)
           /\ ret = yields[Len(yields)].hits

\* C1 witness: strategy 1 returned an empty list, strategy 2 one hit; that
\* hit is the result and strategy 3 was not invoked.
C1_Witness ==
    /\ op = "search_web" /\ pc = "done"
    /\ Len(yields) = 2
    /\ ~yields[1].raised /\ yields[1].hits = <<>>
    /\ Len(yields[2].hits) = 1
    /\ ret = yields[2].hits
    /\ InvokedStrategies = <<"ddgs", "ddg_html">>

\* C2: search_web never raises; when every strategy invoked came back empty
\* or failed, all three were invoked and the result is the empty list; and a
\* strategy that raised is followed by the next one.
C2_ExhaustedReturnsEmpty ==
    op = "search_web" =>
      /\ pc # "raised"
      /\ (pc = "done" /\ \A i \in 1..Len(yields) : yields[i].hits = <<>>) =>
           /\ InvokedStrategies = Strategies
           /\ Len(yields) = Len(Strategies)
           /\ ret = <<>>
      /\ pc = "done" =>
           \A i \in 1..Len(yields) :
              (yields[i].raised /\ i < Len(Strategies)) => Len(yields) > i

\* C2 witness: the library was absent, the DuckDuckGo page held no result,
\* the Google request failed, and the empty list came back.
C2_Witness ==
    /\ op = "search_web" /\ pc = "done"
    /\ Len(yields) = 3
    /\ yields[1].raised /\ ~yields[2].raised /\ yields[3].raised
    /\ ret = <<>>

C4_ListingFailureShortCircuits ==
    (op = "scrape_links" /\ pc = "done" /\ lres.error # None) =>
      /\ ret.pages = <<>>
      /\ ret.errors = <<lres.error>>
      /\ scrapes = <<>> /\ inflight = {}
      /\ Len(SelectSeq(events, IsHttpGet)) = 1

\* C4 witness: the start URL answered 404.
C4_Witness ==
    /\ op = "scrape_links" /\ pc = "done"
    /\ lres.error = "HTTP 404"
    /\ ret.pages = <<>> /\ ret.errors = <<"HTTP 404">>

\* The positions of seq whose entry is about URL u.
EntriesFor(seq, u) == {j \in 1..Len(seq) : seq[j].url = u}

\* C5: when the listing succeeded, scrape_links called scrape_url once for
\* every selected link, in order; a link whose record has no error has one
\* pages entry and no errors entry, any other link one errors entry naming
\* its URL and no pages entry; so the two lists together have as many entries
\* as links were selected, and three links without a failure give three
\* pages and no errors.
C5_OneEntryPerLink ==
    (op = "scrape_links" /\ pc = "done" /\ lres.error = None) =>
      /\ Len(scrapes) = Len(selected)
      /\ Len(SelectSeq(events, IsHttpGet)) = 1 + Len(selected)
      /\ Len(ret.pages) + Len(ret.errors) = Len(selected)
      /\ \A i \in 1..Len(selected) :
           LET u == selected[i].href
           IN  /\ scrapes[i].url = u
               /\ IF scrapes[i].error = None
                  THEN /\ Cardinality(EntriesFor(ret.pages, u)) = 1
                       /\ EntriesFor(ret.errors, u) = {}
                  ELSE /\ Cardinality(EntriesFor(ret.errors, u)) = 1
                       /\ EntriesFor(ret.pages, u) = {}
      /\ (Len(selected) = 3 /\ \A i \in 1..3 : scrapes[i].error = None) =>
           Len(ret.pages) = 3 /\ ret.errors = <<>>

\* C5 witness: three distinct links of the start page's host, no failure.
C5_Witness ==
    /\ op = "scrape_links" /\ pc = "done" /\ lres.error = None
    /\ Len(selected) = 3
    /\ \A i \in 1..3 : scrapes[i].error = None
    /\ Len(ret.pages) = 3 /\ ret.errors = <<>>

\* scrape_urls_tool([]).
EmptyUrlList == [type |-> "list", form |-> "", items |-> <<>>]

NoBrowserHtml ==
    \/ browser.state = "not_tried" /\ ~use_fallback
    \/ browser.state \in {"unavailable", "failed"}
    \/ browser.state = "rendered" /\ browser.doc.empty

\* C7: when the detector fires on the HTTP response and the browser gives no
\* HTML, scrape_url returns the record built from the HTTP response, with no
\* error, and list_links the links extracted from the HTTP response's soup,
\* with no error of the browser's.
C7_BrowserFailureKeepsHttpContent ==
    /\ (/\ op = "scrape_url" /\ pc = "done" /\ parsed.ok
        /\ IsJsRequiredPage(html, url, html.text_len)
        /\ NoBrowserHtml) =>
          /\ ret = ScrapeOk(url, html.title, NormalizeLines(html.text))
          /\ ret.error = None
    /\ (/\ op = "list_links" /\ pc = "done" /\ soup.built
        /\ IsJsRequiredPage(html, url, Min(html.soup_len, PlaceholderCut))
        /\ NoBrowserHtml) =>
          LET e == ExtractLoop(<<>>, soup.anchors, url, same_domain_only, max_links)
          IN  /\ soup.of = "http"
              /\ ret.url = url
              /\ IF e.ok THEN ret.error = None /\ ret.links = e.links
                 ELSE ret.error = "Invalid IPv6 URL" /\ ret.links = <<>>

\* C7 witness: the page says "Please enable JavaScript to continue", no
\* browser backend is installed, and scrape_url returned the page's own text.
C7_Witness ==
    /\ op = "scrape_url" /\ pc = "done"
    /\ html = JsShellDoc /\ use_fallback /\ ~pw_installed
    /\ browser.state = "unavailable"
    /\ ret.text = <<"Please enable JavaScript to continue">> /\ ret.error = None

\* This step launches the headless browser.
BrowserLaunched ==
    /\ Len(events') = Len(events) + 1
    /\ events'[Len(events')] = "browser_launch"

\* C8: a step launches the browser only when the fallback is enabled, the
\* backend is installed, the HTTP fetch of the running call produced a
\* document and the detector is true of that document.
C8_BrowserLaunchedOnlyWhenNeeded ==
    [][BrowserLaunched =>
         /\ use_fallback /\ pw_installed
         /\ pc \in {"su_browser", "ll_browser"}
         /\ ~html.empty
         /\ events[Len(events)] = "http_get"
         /\ IF pc = "su_browser"
            THEN IsJsRequiredPage(html, surl, html.text_len)
            ELSE IsJsRequiredPage(html, url, Min(html.soup_len, PlaceholderCut))]_vars

\* C8 witness: list_links fetched a placeholder page, launched the browser
\* and took the links of the rendered page.
C8_Witness ==
    /\ op = "list_links" /\ pc = "done"
    /\ events = <<"http_get", "browser_launch">>
    /\ browser.state = "rendered" /\ soup.of = "browser"
    /\ ret.error = None

\* The HTTP exchange of the call that just returned failed.
FetchFailed == events # <<>> /\ events[Len(events)] = "http_get" /\ html.empty

\* C9: no public operation raises, and what each returns is a well-formed
\* record: scrape_url and list_links a record of their URL that carries the
\* failure of the fetch or of the parser in its error field, scrape_links a
\* record whose errors list holds the listing's error or one entry for each
\* failed link, search_web a list of hits.
C9_FailuresReturnedAsData ==
    /\ pc # "raised"
    /\ (op = "scrape_url" /\ pc = "done") =>
         /\ DOMAIN ret = {"url", "title", "text", "error"}
         /\ ret.url = url
         /\ FetchFailed => ret.error \in {ErrorText(exc) : exc \in HttpFailures}
         /\ (~html.empty /\ ~parsed.ok) => ret.error # None
    /\ (op = "list_links" /\ pc = "done") =>
         /\ DOMAIN ret = {"url", "links", "error"}
         /\ ret.url = url
         /\ FetchFailed => ret.error \in {ErrorText(exc) : exc \in HttpFailures}
         /\ (~html.empty /\ ~soup.built) => ret.error # None
         /\ ret.error # None => ret.links = <<>>
    /\ (op = "scrape_links" /\ pc = "done") =>
         /\ DOMAIN ret = {"base_url", "pages", "errors"}
         /\ ret.base_url = url
         /\ IF lres.error # None THEN ret.errors = <<lres.error>>
            ELSE Len(ret.errors) =
                   Cardinality({i \in 1..Len(scrapes) : scrapes[i].error # None})
    /\ (op = "search_web" /\ pc = "done") =>
         \A i \in 1..Len(ret) : DOMAIN ret[i] = {"title", "url", "snippet"}

\* C9 witness: the request of scrape_url timed out and the record says so.
C9_Witness ==
    /\ op = "scrape_url" /\ pc = "done"
    /\ ret = [url |-> url, title |-> "", text |-> <<>>, error |-> "timed out"]

\* A record of scrape_url with an error has neither text nor title.
ErrorExcludesText(r) == r.error # None => (r.text = <<>> /\ r.title = "")

\* C10: every record scrape_url returned, to the caller of the tool or to
\* scrape_links, has an empty text and an empty title when it has an error.
C10_ErrorExcludesText ==
    /\ ErrorExcludesText(sres)
    /\ \A i \in 1..Len(scrapes) : ErrorExcludesText(scrapes[i])
    /\ (op = "scrape_url" /\ pc = "done") => ErrorExcludesText(ret)

\* C10 witness: the parser failed on a page that has text, and the record
\* returned has the error and no text.
C10_Witness ==
    /\ op = "scrape_url" /\ pc = "done"
    /\ html = PlainDoc /\ ~parsed.ok
    /\ ret.error = "parse error" /\ ret.text = <<>> /\ ret.title = ""

\* C11: for every max_results >= 0 the list _search_duckduckgo accumulates
\* never has more than max_results entries, and neither has the list any
\* strategy hands back nor the list search_web returns.
C11_ResultsCapped ==
    op = "search_web" =>
      /\ Len(results) <= max_results
      /\ \A i \in 1..Len(yields) : Len(yields[i].hits) <= max_results
      /\ pc = "done" => Len(ret) <= max_results

\* A hit whose title, url and snippet are all the empty string.  The hits of
\* the DDGS library carry their url as the library gave it, those of the
\* HTML strategies as the href read from the page.
HitIsEmpty(h, from_library) ==
    /\ h.title = "" /\ h.snippet = ""
    /\ IF from_library THEN h.url = "" ELSE h.url = SUrl("direct", "")

\* C12: no hit of a list search_web returns has title, url and snippet all
\* empty, whichever strategy produced the list.
C12_NoFullyEmptyHit ==
    (op = "search_web" /\ pc = "done") =>
      \A i \in 1..Len(ret) : ~HitIsEmpty(ret[i], Len(yields) = 1)

IsSleep(e) == e = "sleep"

IsHttpUrl(u) ==
    \/ u.form = "direct" /\ u.target \in {"http://x1", "https://x2"}
    \/ u.form = "ddg_abs"

\* The lists the HTML-scrape strategies handed back.
HtmlYields == {i \in 1..Len(yields) : i > 1}

\* C14: every hit an HTML-scrape strategy hands back has a url that begins
\* with http:// or https://; no hit has a url of another scheme, a relative
\* url or an empty one.
C14_HtmlHitsAreHttp ==
    op = "search_web" =>
      \A i \in HtmlYields :
         \A k \in 1..Len(yields[i].hits) : IsHttpUrl(yields[i].hits[k].url)

\* C14 witness: the DuckDuckGo page held a result of scheme ftp and one of
\* scheme http, and only the second was handed back.
C14_Witness ==
    /\ op = "search_web" /\ pc = "done" /\ Len(yields) = 2
    /\ Len(result_els) = 2
    /\ result_els[1].link /\ result_els[1].href = SUrl("direct", "ftp://x3")
    /\ result_els[2].link /\ result_els[2].href = SUrl("direct", "http://x1")
    /\ Len(ret) = 1 /\ ret[1].url = SUrl("direct", "http://x1")

\* The forms of an href that points at the search engine's redirect endpoint.
WrapperForms == {"ddg_protorel", "ddg_path", "ddg_abs", "google_url"}

\* C15: no hit an HTML-scrape strategy hands back has a redirect-wrapper URL
\* as its url; and a page whose one result links to a wrapper of an http(s)
\* destination gives exactly one hit, whose url is that destination.
C15_WrappersUnwrapped ==
    op = "search_web" =>
      /\ \A i \in HtmlYields :
           \A k \in 1..Len(yields[i].hits) :
              yields[i].hits[k].url.form \notin WrapperForms
      /\ (/\ Len(yields) = 2 /\ ~yields[2].raised /\ max_results >= 1
          /\ Len(result_els) = 1 /\ result_els[1].link
          /\ result_els[1].href.form \in WrapperForms
          /\ result_els[1].href.target \in {"http://x1", "https://x2"}) =>
             /\ Len(yields[2].hits) = 1
             /\ yields[2].hits[1].url = SUrl("direct", result_els[1].href.target)
      /\ (/\ Len(yields) = 3 /\ ~yields[3].raised /\ max_results >= 1
          /\ Len(result_els) = 1 /\ result_els[1].title_el /\ result_els[1].link_el
          /\ result_els[1].href.form \in WrapperForms
          /\ result_els[1].href.target \in {"http://x1", "https://x2"}) =>
             /\ Len(yields[3].hits) = 1
             /\ yields[3].hits[1].url = SUrl("direct", result_els[1].href.target)

\* Some response body has been received and decoded by the running call.
BodyDecoded == content.received > 0

\* C16: every fetch (scrape_url, list_links, the document export) hands to the
\* decoder at most the first max_size bytes of the body: all of a body that
\* fits, exactly max_size bytes of a longer one.
C16_DecodedAtMostMaxSize ==
    BodyDecoded =>
        /\ content.kept <= max_size
        /\ content.kept = Min(content.received, max_size)

\* list_links returned record ret.
Listed == op = "list_links" /\ pc = "done"

\* Link l was made from an a[href] element whose href is empty, fragment-only
\* or a mailto: address.
FromSkippedHref(l) ==
    \E k \in 1..Len(soup.anchors) :
        /\ soup.anchors[k].form \in {"empty", "fragment", "mailto"}
        /\ l.text = [str |-> soup.anchors[k].text]

\* C17: the links list_links returns holds no two entries with the same
\* absolute URL and no entry whose scheme is other than http or https, and no
\* entry made from an empty, fragment-only or mailto: href.
C17_LinksDistinctAndHttp ==
    Listed =>
        /\ \A i, j \in 1..Len(ret.links) :
               i # j => ret.links[i].href # ret.links[j].href
        /\ \A i \in 1..Len(ret.links) :
               /\ ret.links[i].href.scheme \in {"http", "https"}
               /\ ~FromSkippedHref(ret.links[i])

\* A page with a link given twice (relative, then absolute) and a mailto: href
\* was listed: the one link came back.
C17_Witness ==
    /\ Listed /\ url = Url("https", "a.com", "/p0") /\ max_links >= 2
    /\ soup.anchors = <<ARelP1, AMailto, AAbsP1>>
    /\ Len(ret.links) = 1 /\ ret.links[1].href = Url("https", "a.com", "/p1")

\* C18: with same_domain_only set, every link list_links returns has the host
\* of the page URL itself, whether the a[href] elements came from the HTTP
\* response or from the browser-rendered HTML.
C18_SameDomainExact ==
    (Listed /\ same_domain_only) =>
        \A i \in 1..Len(ret.links) : ret.links[i].href.host = url.host

\* Browser-rendered HTML with a link to a sub-domain, a link to a host that
\* ends with the page's host and a link of the page's host was listed with
\* same_domain_only set: only the last came back.
C18_Witness ==
    /\ Listed /\ same_domain_only /\ soup.of = "browser"
    /\ url = Url("https", "a.com", "/p0") /\ max_links >= 1
    /\ soup.anchors = <<ASubP1, ASuffixP1, ARelP1>>
    /\ Len(ret.links) = 1 /\ ret.links[1].href = Url("https", "a.com", "/p1")

\* A page of a sub-domain with a link to its parent domain was listed with
\* same_domain_only set: the link did not come back.
C18_ParentWitness ==
    /\ Listed /\ same_domain_only /\ url = Url("https", "sub.a.com", "/p0")
    /\ soup.anchors = <<AAbsP1>> /\ max_links >= 1 /\ ret.links = <<>>

\* Position i of the soup's a[href] elements holds an accepted anchor: its
\* href is not skipped, resolves, has scheme http or https and, with
\* same_domain_only, the page's host.
AcceptedAt(i) ==
    LET a == soup.anchors[i]
    IN  /\ a.form \in {"relative", "absolute"}
        /\ UrlJoin(url, a).scheme \in {"http", "https"}
        /\ same_domain_only => UrlJoin(url, a).host = url.host

\* The positions of accepted anchors that do not repeat the absolute URL of
\* an accepted anchor before them.
FirstAccepted ==
    {i \in 1..Len(soup.anchors) :
        /\ AcceptedAt(i)
        /\ \A j \in 1..(i - 1) :
               AcceptedAt(j) => UrlJoin(url, soup.anchors[j]) # UrlJoin(url, soup.anchors[i])}

\* The k-th position of FirstAccepted in document order.
NthFirstAccepted(k) ==
    CHOOSE i \in FirstAccepted : Cardinality({j \in FirstAccepted : j < i}) = k - 1

C19_ZeroCapWitness ==
    /\ Listed /\ ret.error = None /\ max_links = 0
    /\ Cardinality(FirstAccepted) > 0 /\ ret.links = <<>>

\* The linked pages scrape_links has fetched or is fetching.
FetchedCount == Len(scrapes) + Cardinality(inflight)

\* The listing of the start page succeeded and the crawl has returned.
CrawlReturned == op = "scrape_links" /\ pc = "done" /\ ~ListingFailed(lres)

\* C20: scrape_links fetches the first max_pages links of the listing, in
\* listing order: never more than max_pages of them, none when max_pages <= 0,
\* link k only after every link before it, and all of the first max_pages by
\* the time it returns; the configured maximum stands in when max_pages is
\* not given.
C20_FirstMaxPagesFetched ==
    op = "scrape_links" =>
        /\ FetchedCount <= Max(Limit(max_pages), 0)
        /\ \A k \in 1..Len(scrapes) : scrapes[k].url = lres.links[k].href
        /\ \A i \in inflight : i = Len(scrapes) + 1
        /\ CrawlReturned =>
               Len(scrapes) = Min(Max(Limit(max_pages), 0), Len(lres.links))

\* The detector as the two triggers describe it: a placeholder phrase in the
\* HTML, or a text shorter than the threshold on a page whose host is one of
\* the JS-heavy domains.
JsRequiredByHost(doc, u, text_len) ==
    \/ doc.phrase
    \/ text_len < JsTextThreshold /\ u.host \in JsHeavyDomains

\* scrape_url returned what it parsed from the HTTP response, and never went
\* to the browser.
ScrapedWithoutBrowser ==
    /\ op = "scrape_url" /\ pc = "done" /\ use_fallback
    /\ ~html.empty /\ browser = NotTried /\ ret.error = None

\* C21: the JS-required detector answers true exactly when the HTML holds a
\* placeholder phrase, or the extracted text is shorter than 400 characters
\* and the URL's host is a JS-heavy domain; naming such a domain in the path
\* or the query string does not count.
C21_DetectorByPhraseOrHost ==
    /\ (op = "scrape_url" /\ pc = "su_browser")
           => JsRequiredByHost(html, surl, html.text_len)
    /\ (op = "list_links" /\ pc = "ll_browser")
           => JsRequiredByHost(html, url, Min(html.soup_len, PlaceholderCut))
    /\ ScrapedWithoutBrowser => ~JsRequiredByHost(html, surl, html.text_len)

\* scrape_url returned for a document of the document-hosting platform.
DocScraped == op = "scrape_url" /\ pc = "done" /\ IsGoogleDoc(surl)

\* Record r holds the text of an export, line by line, and no error.
BuiltFromExport(r) ==
    /\ r.url = surl /\ r.error = None
    /\ \E t \in ExportTexts : t.strip_len > 0 /\ r.text = NormalizeLines(t.lines)

\* The records the pipeline after the export step can return for URL u.
PipelineReplies(u) ==
    {ScrapeErr(u, ErrorText(exc)) : exc \in {e \in HttpFailures : CaughtByFetch(e)}}
        \cup {ScrapeParseFailure(u, d) : d \in HttpDocs \cup BrowserDocs}
        \cup {ScrapeResult(u, ParseHtmlToText(d)) : d \in HttpDocs \cup BrowserDocs}

\* C22: on a document URL the export fetch is the first request of scrape_url;
\* a run whose export succeeded made no other request and returns the export
\* text alone; a run whose export failed goes on with the HTTP GET and returns
\* what the pipeline returns for that page.
C22_ExportFirstAndAlone ==
    (op = "scrape_url" /\ IsGoogleDoc(surl)) =>
        /\ pc = "su_export" => events = <<>>
        /\ events # <<>> => events[1] = "export_get"
        /\ \A i \in 2..Len(events) : events[i] # "export_get"
        /\ pc = "done" =>
               IF Len(events) = 1
               THEN BuiltFromExport(ret) /\ html = NoDoc /\ browser = NotTried
               ELSE /\ events[2] = "http_get"
                    /\ ret \in PipelineReplies(surl)
                    /\ ~BuiltFromExport(ret)

\* The export of a document succeeded: the result carries its text and the
\* export fetch was the only request.
C22_Witness ==
    /\ DocScraped /\ events = <<"export_get">>
    /\ ret.title = "My Doc" /\ ret.text = <<"My Doc", "body">>

\* The export of a document failed and the page was fetched and parsed.
C22_FallThroughWitness ==
    /\ DocScraped /\ events = <<"export_get", "http_get">>
    /\ ret.error = None /\ ret.title = "Plain"

\* C23: scrape_url returns the text of an export only when that text is
\* neither too short nor error-worded; either defect alone sends the run on to
\* the normal pipeline.
C23_ShortOrErrorShapedRejected ==
    (DocScraped /\ events = <<"export_get">>) =>
        \A t \in ExportTexts :
            ret = ExportResult(surl, t) =>
                t.strip_len >= ExportShortThreshold /\ ~t.error_words

\* The places a call is at once a fetch, a browser session or a search
\* strategy has returned to its caller, the return of the operation included.
ReturnPoints ==
    {"done", "raised", "su_parse", "su_browser", "ll_parse", "ll_browser",
     "sl_listed", "sl_loop", "sl_collect", "ddgs_fallback",
     "sw_ddg_html", "sw_google_html", "sw_exhausted"}

\* C24: every HTTP client and every browser an operation opened is closed
\* when the block that opened it is left, whether by its end, by an HTTP
\* error, by a timeout or by an exception inside the browser session; when
\* the operation returns nothing it opened is still open.
C24_AllClosedAtReturn ==
    /\ pc \in ReturnPoints => opened = {}
    /\ Cardinality(opened) <= 1

\* scrape_url returned after its HTTP client delivered a page and its browser
\* session failed: both were opened, and neither is open.
C24_Witness ==
    /\ op = "scrape_url" /\ pc = "done" /\ opened = {}
    /\ events = <<"http_get", "browser_launch">>
    /\ browser.state = "failed"

\* The positions, in order of completion, of the link fetches that ended
\* without an error, and of those that ended with one.
Succeeded == {i \in 1..Len(scrapes) : ~Truthy(scrapes[i].error)}
Failed == {i \in 1..Len(scrapes) : Truthy(scrapes[i].error)}

\* The k-th position of set S of positions.
NthOf(S, k) == CHOOSE i \in S : Cardinality({j \in S : j < i}) = k - 1

\* C25: in the result of scrape_links the k-th entry of pages is the k-th
\* link fetch to complete without error, and the k-th entry of errors is the
\* k-th link fetch to complete with one.
C25_CompletionOrder ==
    CrawlReturned =>
        /\ Len(ret.pages) = Cardinality(Succeeded)
        /\ Len(ret.errors) = Cardinality(Failed)
        /\ \A k \in 1..Len(ret.pages) :
               LET r == scrapes[NthOf(Succeeded, k)]
               IN  ret.pages[k] = [url |-> r.url, title |-> r.title, text |-> r.text]
        /\ \A k \in 1..Len(ret.errors) :
               LET r == scrapes[NthOf(Failed, k)]
               IN  ret.errors[k] = ErrorEntry(r.url, r.error)

\* A crawl of three links returned: the first and third fetch completed
\* without error, the second with one.
C25_Witness ==
    /\ CrawlReturned /\ Len(scrapes) = 3
    /\ Succeeded = {1, 3} /\ Failed = {2}
    /\ ret.pages[1].url = scrapes[1].url /\ ret.pages[2].url = scrapes[3].url
    /\ ret.pages[1].url # ret.pages[2].url

\* A query of the DDGS backend.
IsDdgsQuery(e) == e = "ddgs_query"

\* _search_duckduckgo is running.
InDdgs ==
    /\ op = "search_web"
    /\ pc \in {"ddgs_primary", "ddgs_primary_pass", "ddgs_fallback", "ddgs_fallback_pass"}

\* C26: one call of _search_duckduckgo makes at most two attempts, hence a
\* bounded number of backend queries; the second attempt starts only when the
\* first left the result list empty or raised; the one-second sleep follows
\* only a first attempt that raised, never the second.
C26_AtMostTwoAttempts ==
    op = "search_web" =>
        /\ attempt <= DdgsAttempts
        /\ InDdgs => attempt < DdgsAttempts
        /\ Len(SelectSeq(events, IsDdgsQuery)) <= 2 * DdgsAttempts
        /\ (pc = "ddgs_primary" /\ attempt = 1) =>
               results = <<>> \/ events[Len(events)] = "sleep"
        /\ Len(SelectSeq(events, IsSleep)) <= 1
        /\ (events # <<>> /\ events[Len(events)] = "sleep") =>
               pc \in {"ddgs_primary", "ddgs_primary_pass"} /\ attempt = 1
        /\ attempt = DdgsAttempts => events[Len(events)] # "sleep"

\* Both attempts were made: the first raised and was followed by the sleep, the
\* second ended, and the strategy returned to search_web.
C26_Witness ==
    /\ op = "search_web" /\ pc = "sw_ddg_html" /\ attempt = DdgsAttempts
    /\ events = <<"ddgs", "ddgs_query", "sleep", "ddgs_query">>
    /\ Len(yields) = 1 /\ ~yields[1].raised

\* _search_duckduckgo returned a list to search_web.
DdgsReturned == op = "search_web" /\ Len(yields) >= 1 /\ ~yields[1].raised

\* C27: the list _search_duckduckgo returns holds the hits of one pass over
\* the backend only: what a pass appended before it failed is not returned
\* together with the hits of a later pass.
C27_HitsOfOnePass == DdgsReturned => yields[1].hits = pass_hits
====
